---- MODULE Spec2Model ----
(***************************************************************************)
(* Model of the natural-language step interpreter of bug-automation-mcp    *)
(* (src/playwright_parser.py, class PlaywrightStepParser).                 *)
(*                                                                         *)
(* Steps, selectors and messages are strings, handled character by         *)
(* character as the Python code and its regular expressions handle them.   *)
(* The page is an external collaborator: every operation the interpreter   *)
(* invokes on it may answer in any way its interface allows (a lookup hits,*)
(* misses or raises; an action completes or raises).  A handler is         *)
(* therefore the set of its possible runs; a run is the log of the page    *)
(* operations it invoked, with their answers, and the way it ended.        *)
(***************************************************************************)
EXTENDS Integers, Sequences, FiniteSets, TLC

(* the step parser and its caller *)
VARIABLES parser, pc, step, frame, calls, result, all_passed

(* the MCP server: its Playwright handles and the tool calls in flight *)
VARIABLES playwright, browser, started, launched, closed, stopped, shutdown, task

(* the MCP server: its Sheets client, the sheet and the update call *)
VARIABLES sheets_service, sheet, sheetPc, request, sheet_before, updates, reply

parserVars == <<parser, pc, step, frame, calls, result, all_passed>>

serverVars == <<playwright, browser, started, launched, closed, stopped, shutdown, task>>

sheetVars == <<sheets_service, sheet, sheetPc, request, sheet_before, updates, reply>>

vars == <<parserVars, serverVars, sheetVars>>

----------------------------------------------------------------------------
(* Python string primitives                                                *)

Char(s, i) == SubSeq(s, i, i)

UpperAlpha == "ABCDEFGHIJKLMNOPQRSTUVWXYZ"
LowerAlpha == "abcdefghijklmnopqrstuvwxyz"
DigitChars == "0123456789"
QuoteChars == "\"'"
SpaceChars == " \t"
IdentChars == LowerAlpha \o UpperAlpha \o DigitChars \o "_-"

(* c in chars, for a one-character string c *)
InChars(c, chars) == \E k \in 1..Len(chars) : Char(chars, k) = c

PosInChars(c, chars) == CHOOSE k \in 1..Len(chars) : Char(chars, k) = c

RECURSIVE lower(_)
lower(s) ==
    IF s = "" THEN ""
    ELSE LET c == Char(s, 1)
         IN  (IF InChars(c, UpperAlpha)
              THEN Char(LowerAlpha, PosInChars(c, UpperAlpha))
              ELSE c) \o lower(SubSeq(s, 2, Len(s)))

(* s[i:i+len(k)] == k *)
MatchAt(s, i, k) == i >= 1 /\ i + Len(k) - 1 <= Len(s) /\ SubSeq(s, i, i + Len(k) - 1) = k

(* k in s *)
contains(s, k) == \E i \in 1..(Len(s) - Len(k) + 1) : MatchAt(s, i, k)

(* s.find(k, from) as a 1-based index, 0 when absent *)
find(s, k, from) ==
    LET hits == { i \in from..(Len(s) - Len(k) + 1) : MatchAt(s, i, k) }
    IN  IF hits = {} THEN 0 ELSE CHOOSE i \in hits : \A j \in hits : i <= j

startswith(s, k) == MatchAt(s, 1, k)

RECURSIVE lstrip(_, _)
lstrip(s, chars) ==
    IF s # "" /\ InChars(Char(s, 1), chars) THEN lstrip(SubSeq(s, 2, Len(s)), chars) ELSE s

RECURSIVE rstrip(_, _)
rstrip(s, chars) ==
    IF s # "" /\ InChars(Char(s, Len(s)), chars) THEN rstrip(SubSeq(s, 1, Len(s) - 1), chars) ELSE s

(* s.strip(chars); s.strip() is strip(s, SpaceChars) *)
strip(s, chars) == rstrip(lstrip(s, chars), chars)

(* s.split(sep): the pieces between the non-overlapping occurrences of sep *)
RECURSIVE split(_, _)
split(s, sep) ==
    LET i == find(s, sep, 1)
    IN  IF i = 0 THEN <<s>>
        ELSE <<SubSeq(s, 1, i - 1)>> \o split(SubSeq(s, i + Len(sep), Len(s)), sep)

(* end of the longest run of characters of `chars` that starts at i;
   i - 1 when s[i] is not in chars *)
RECURSIVE RunEnd(_, _, _)
RunEnd(s, i, chars) ==
    IF i <= Len(s) /\ InChars(Char(s, i), chars) THEN RunEnd(s, i + 1, chars) ELSE i - 1

(* the same for the characters NOT in `chars` *)
RECURSIVE RunEndNot(_, _, _)
RunEndNot(s, i, chars) ==
    IF i <= Len(s) /\ ~InChars(Char(s, i), chars) THEN RunEndNot(s, i + 1, chars) ELSE i - 1

(* least element of a non-empty set of positions *)
Least(S) == CHOOSE i \in S : \A j \in S : i <= j

(* int(s) for a string of decimal digits *)
RECURSIVE int(_)
int(s) ==
    IF s = "" THEN 0
    ELSE 10 * int(SubSeq(s, 1, Len(s) - 1)) + (PosInChars(Char(s, Len(s)), DigitChars) - 1)

(* str(n) for a natural number *)
RECURSIVE str(_)
str(n) ==
    IF n < 10 THEN Char(DigitChars, n + 1)
    ELSE str(n \div 10) \o Char(DigitChars, (n % 10) + 1)

None == "None"

----------------------------------------------------------------------------
(* The regular expressions of the parser.  Each operator is re.search for  *)
(* one pattern and gives the tuple of the groups the code reads, or the    *)
(* empty tuple without a match.                                            *)

(* ["\']([^"\']+)["\'] : <<group 1>> of the leftmost match *)
QuotedText(s) ==
    LET starts == { i \in 1..Len(s) :
                      /\ InChars(Char(s, i), QuoteChars)
                      /\ RunEndNot(s, i + 1, QuoteChars) >= i + 1
                      /\ RunEndNot(s, i + 1, QuoteChars) < Len(s) }
    IN  IF starts = {} THEN << >>
        ELSE LET i == Least(starts)
             IN  <<SubSeq(s, i + 1, RunEndNot(s, i + 1, QuoteChars))>>

(* https?://[^\s]+ : <<group 0>> of the leftmost match *)
UrlToken(s) ==
    LET BodyStart(i) == IF MatchAt(s, i, "https://") THEN i + 8
                        ELSE IF MatchAt(s, i, "http://") THEN i + 7 ELSE 0
        starts == { i \in 1..Len(s) :
                      BodyStart(i) # 0 /\ RunEndNot(s, BodyStart(i), SpaceChars) >= BodyStart(i) }
    IN  IF starts = {} THEN << >>
        ELSE LET i == Least(starts)
             IN  <<SubSeq(s, i, RunEndNot(s, BodyStart(i), SpaceChars))>>

(* <mark>([a-zA-Z0-9_-]+) for mark '#' or '.' : <<group 1>> of the leftmost match *)
MarkedIdent(s, mark) ==
    LET starts == { i \in 1..Len(s) :
                      Char(s, i) = mark /\ RunEnd(s, i + 1, IdentChars) >= i + 1 }
    IN  IF starts = {} THEN << >>
        ELSE LET i == Least(starts)
             IN  <<SubSeq(s, i + 1, RunEnd(s, i + 1, IdentChars))>>

RelationWords == <<"called", "labeled", "named", "with">>

(* first position after the blanks that start at position a *)
SkipBlanks(s, a) == RunEnd(s, a, SpaceChars) + 1

(* [\s]+["\']?([^"\'\s]+) from position c: the start of group 2, or 0 *)
IdentAfter(s, c) ==
    LET d == SkipBlanks(s, c)
        e == IF d <= Len(s) /\ InChars(Char(s, d), QuoteChars) THEN d + 1 ELSE d
    IN  IF d = c THEN 0
        ELSE IF RunEndNot(s, e, QuoteChars \o SpaceChars) >= e THEN e ELSE 0

(* [\s]+(called|labeled|named|with) from position a, then IdentAfter *)
RelationAfter(s, a) ==
    LET b == SkipBlanks(s, a)
        rels == { r \in 1..Len(RelationWords) : MatchAt(s, b, RelationWords[r]) }
    IN  IF b = a \/ rels = {} THEN 0
        ELSE IdentAfter(s, b + Len(RelationWords[Least(rels)]))

(* the start of group 2 when the pattern matches at i, or 0 *)
IdentStart(s, i, element_type) ==
    IF ~MatchAt(s, i, element_type) THEN 0 ELSE RelationAfter(s, i + Len(element_type))

(* the identifier that starts at e *)
IdentFrom(s, e) == <<SubSeq(s, e, RunEndNot(s, e, QuoteChars \o SpaceChars))>>

(* <type>[\s]+(called|labeled|named|with)[\s]+["\']?([^"\'\s]+)["\']? :
   <<group 2>> of the leftmost match *)
TypedIdent(s, element_type) ==
    LET starts == { i \in 1..Len(s) : IdentStart(s, i, element_type) # 0 }
    IN  IF starts = {} THEN << >>
        ELSE IdentFrom(s, IdentStart(s, Least(starts), element_type))

TimeUnits == <<"second", "seconds", "ms", "millisecond">>

(* (\d+)\s*(second|seconds|ms|millisecond) : <<group 1, group 2>> of the
   leftmost match, << >> without a match *)
TimeMatch(s) ==
    LET UnitAt(i) ==
            LET u == RunEnd(s, RunEnd(s, i, DigitChars) + 1, SpaceChars) + 1
                us == { k \in 1..Len(TimeUnits) : MatchAt(s, u, TimeUnits[k]) }
            IN  IF us = {} THEN "" ELSE TimeUnits[Least(us)]
        starts == { i \in 1..Len(s) : InChars(Char(s, i), DigitChars) /\ UnitAt(i) # "" }
    IN  IF starts = {} THEN << >>
        ELSE LET i == Least(starts)
             IN  <<SubSeq(s, i, RunEnd(s, i, DigitChars)), UnitAt(i)>>

----------------------------------------------------------------------------
(* _extract_selector: the five extraction strategies, each giving "" when  *)
(* it derives no selector, and their cascade.                              *)

ElementTypes == <<"button", "link", "input", "field", "checkbox", "radio">>

Prepositions == <<"on the", "on", "into the", "into", "with", "at">>

(* quoted text -> text=<literal> *)
SelectorFromQuote(step_) ==
    LET quote_match == QuotedText(step_)
    IN  IF quote_match # << >> THEN "text=" \o quote_match[1] ELSE ""

(* <type>:has-text("<identifier>") for an element type whose pattern matches *)
HasText(low, element_type) ==
    element_type \o ":has-text(\"" \o TypedIdent(low, element_type)[1] \o "\")"

(* the first element type, in list order, that occurs in the lower-cased
   step and whose pattern matches it *)
SelectorFromElementType(step_) ==
    LET low == lower(step_)
        ok == { t \in 1..Len(ElementTypes) :
                  contains(low, ElementTypes[t]) /\ TypedIdent(low, ElementTypes[t]) # << >> }
    IN  IF ok = {} THEN "" ELSE HasText(low, ElementTypes[Least(ok)])

SelectorFromId(step_) ==
    LET id_match == MarkedIdent(step_, "#")
    IN  IF id_match # << >> THEN "#" \o id_match[1] ELSE ""

SelectorFromClass(step_) ==
    LET class_match == MarkedIdent(step_, ".")
    IN  IF class_match # << >> THEN "." \o class_match[1] ELSE ""

(* what one preposition yields: the piece after its first occurrence,
   stripped of blanks and then of quotes *)
PotentialSelector(step_, prep) ==
    LET low == lower(step_)
        sep == " " \o prep \o " "
    IN  IF contains(low, sep) /\ Len(split(low, sep)) > 1
        THEN strip(strip(split(low, sep)[2], SpaceChars), QuoteChars)
        ELSE ""

(* the first preposition, in list order, with a non-empty yield *)
SelectorFromPreposition(step_) ==
    LET ok == { p \in 1..Len(Prepositions) : PotentialSelector(step_, Prepositions[p]) # "" }
    IN  IF ok = {} THEN ""
        ELSE "text=" \o PotentialSelector(step_, Prepositions[Least(ok)])

(* a strategy's selector when it derived one, else what the later ones give *)
OrElse(found, later) == IF found # "" THEN found ELSE later

(* mutant: the #id strategy tried before the quoted text *)
_extract_selector_IdFirst(step_) ==
    OrElse(SelectorFromId(step_),
    OrElse(SelectorFromQuote(step_),
    OrElse(SelectorFromElementType(step_),
    OrElse(SelectorFromClass(step_),
    OrElse(SelectorFromPreposition(step_), "")))))

(* mutant: the element-type strategy tried before the quoted text *)
_extract_selector_TypeFirst(step_) ==
    OrElse(SelectorFromElementType(step_),
    OrElse(SelectorFromQuote(step_),
    OrElse(SelectorFromId(step_),
    OrElse(SelectorFromClass(step_),
    OrElse(SelectorFromPreposition(step_), "")))))

_extract_selector(step_) ==
    OrElse(SelectorFromQuote(step_),
    OrElse(SelectorFromElementType(step_),
    OrElse(SelectorFromId(step_),
    OrElse(SelectorFromClass(step_),
    OrElse(SelectorFromPreposition(step_), "")))))

----------------------------------------------------------------------------
(* The classifier of execute_step: the ordered keyword rules.              *)

any_in(s, keywords) == \E k \in 1..Len(keywords) : contains(s, keywords[k])

IsNavigation(step_lower) == any_in(step_lower, <<"navigate to", "go to", "visit", "open">>)
IsClick(step_lower)      == any_in(step_lower, <<"click", "press", "tap">>)
IsInput(step_lower)      == any_in(step_lower, <<"type", "enter", "fill", "input">>)
IsSelect(step_lower)     == contains(step_lower, "select")
                            /\ (contains(step_lower, "dropdown") \/ contains(step_lower, "from"))
IsWait(step_lower)       == any_in(step_lower, <<"wait for", "wait until">>)
IsVerification(step_lower) ==
    any_in(step_lower, <<"verify", "check", "assert", "ensure", "confirm">>)
IsScroll(step_lower)     == contains(step_lower, "scroll")
IsHover(step_lower)      == contains(step_lower, "hover")

(* mutant: the verification rule tested before the click rule *)
Dispatch_VerifyBeforeClick(step_) ==
    LET step_lower == strip(lower(step_), SpaceChars)
    IN  IF IsNavigation(step_lower) THEN "_handle_navigation"
        ELSE IF IsVerification(step_lower) THEN "_handle_verification"
        ELSE IF IsClick(step_lower) THEN "_handle_click"
        ELSE IF IsInput(step_lower) THEN "_handle_input"
        ELSE IF IsSelect(step_lower) THEN "_handle_select"
        ELSE IF IsWait(step_lower) THEN "_handle_wait"
        ELSE IF IsScroll(step_lower) THEN "_handle_scroll"
        ELSE IF IsHover(step_lower) THEN "_handle_hover"
        ELSE "unrecognized"

(* the handler the if/elif chain of execute_step dispatches to *)
Dispatch(step_) ==
    LET step_lower == strip(lower(step_), SpaceChars)
    IN  IF IsNavigation(step_lower) THEN "_handle_navigation"
        ELSE IF IsClick(step_lower) THEN "_handle_click"
        ELSE IF IsInput(step_lower) THEN "_handle_input"
        ELSE IF IsSelect(step_lower) THEN "_handle_select"
        ELSE IF IsWait(step_lower) THEN "_handle_wait"
        ELSE IF IsVerification(step_lower) THEN "_handle_verification"
        ELSE IF IsScroll(step_lower) THEN "_handle_scroll"
        ELSE IF IsHover(step_lower) THEN "_handle_hover"
        ELSE "unrecognized"

----------------------------------------------------------------------------
(* The steps given to the interpreter: the step lists and the reference of *)
(* supported formats of src/example.py, the examples of the specification, *)
(* and variations that reach the other branches of the handlers.           *)

ExampleSteps ==
    { "Navigate to https://example.com/login",
      "Enter \"testuser\" into username field",
      "Click on \"Login\" button",
      "Verify error message is displayed",
      "Wait for dashboard to load",
      "Verify \"Welcome\" is visible",
      "Verify no error message is displayed",
      "Go to https://example.com",
      "Navigate to the homepage",
      "Visit https://google.com",
      "Click on the \"Submit\" button",
      "Click the login link",
      "Press the #search-button",
      "Tap on \"Next\"",
      "Type \"hello world\" into the search field",
      "Fill \"John Doe\" into the name input",
      "Select \"United States\" from the country dropdown",
      "Check that error message contains \"Invalid\"",
      "Ensure the submit button is displayed",
      "Confirm \"Success\" text appears",
      "Wait for the modal to load",
      "Wait 2 seconds",
      "Wait for #spinner to disappear",
      "Scroll to the bottom",
      "Scroll to the footer",
      "Scroll to the \"Contact Us\" section",
      "Hover over the menu button",
      "Hover on the profile icon" }

VariantSteps ==
    { "Go to",
      "Open",
      "Visit example.com",
      "Navigate to store.example.com",
      "Hover on the site logo on the left",
      "Wait 500 ms",
      "Wait for 2 seconds",
      "Wait for 500 ms",
      "Wait until 30 milliseconds pass",
      "Wait for 5 seconds on the page",
      "Verify \"Error\" is not visible",
      "Verify \"Error\" is visible",
      "Verify \"Notice\" is shown",
      "Ensure .alert is hidden",
      "Click \"Verify\"",
      "Click \"Open\" and verify",
      "  Press 'OK'  ",
      "Click the button named Save",
      "Click the link with 'Help'",
      "Click #main .item",
      "Click at .item with care",
      "Verify \"welcome\" text",
      "Verify text of #title",
      "Assert #banner",
      "Verify the header",
      "Select from dropdown",
      "Select 'Red' from #color",
      "Type hello",
      "Fill in #email",
      "Scroll down",
      "Scroll to #footer",
      "Scroll to the top",
      "Scroll from top to bottom",
      "Scroll to the \"Bottom\" link",
      "Hover",
      "Hover over \"Menu\"",
      "Reload",
      "" }

Steps == ExampleSteps \cup VariantSteps

----------------------------------------------------------------------------
(* Runs.  A run is [log, out]: log is the sequence of the page and element *)
(* operations awaited, each [op, target, arg, res] with res the answer of  *)
(* the page ("raise" when the operation raised); out is how the code       *)
(* ended: [tag |-> "value", val |-> v] for a value, [tag |-> "none"] for   *)
(* Python's None, [tag |-> "raise", err |-> text] for an exception.        *)

Raise == "raise"

(* the code evaluates to v without touching the page *)
Value(v) == { [log |-> << >>, out |-> [tag |-> "value", val |-> v]] }

(* the function ends without a return statement *)
ReturnsNone == { [log |-> << >>, out |-> [tag |-> "none"]] }

(* await <target>.<op>(arg): the page answers with one of `answers`, or the
   operation raises *)
Await(op, target, arg, answers) ==
    { [log |-> <<[op |-> op, target |-> target, arg |-> arg, res |-> a]>>,
       out |-> [tag |-> "value", val |-> a]] : a \in answers }
    \cup
    { [log |-> <<[op |-> op, target |-> target, arg |-> arg, res |-> Raise]>>,
       out |-> [tag |-> "raise", err |-> op \o " failed"]] }

(* At most MaxFaults operations raise during one step. *)
MaxFaults == 2

Faults(log) == Cardinality({ i \in 1..Len(log) : log[i].res = Raise })

WithinFaults(runs) == { r \in runs : Faults(r.log) <= MaxFaults }

(* m, then the code F applied to the value of m; an exception of m ends
   the run *)
Then(m, F(_)) ==
    WithinFaults(
        { o \in m : o.out.tag # "value" }
        \cup
        UNION { LET rest == F(v)
                IN  { [log |-> o.log \o p.log, out |-> p.out] :
                          o \in { x \in m : x.out = [tag |-> "value", val |-> v] },
                          p \in rest }
                : v \in { x.out.val : x \in { y \in m : y.out.tag = "value" } } })

(* try: m   except Exception as e: H(str(e)) *)
TryExcept(m, H(_)) ==
    WithinFaults(
        { o \in m : o.out.tag # "raise" }
        \cup
        UNION { LET rest == H(e)
                IN  { [log |-> o.log \o p.log, out |-> p.out] :
                          o \in { x \in m : x.out = [tag |-> "raise", err |-> e] },
                          p \in rest }
                : e \in { x.out.err : x \in { y \in m : y.out.tag = "raise" } } })

(* the result dictionary *)
Dict(success, message, screenshot) ==
    [success |-> success, message |-> message, screenshot |-> screenshot]

Page == "page"
Png == "PNG"

(* timeout=10000 of wait_for_selector *)
WaitTimeoutMs == 10000

(* what an element's text_content() may answer: no text, or a text *)
TextContents == { None, "", "Welcome, Bob", "INVALID login" }

screenshot == Await("screenshot", Page, "", { Png })

----------------------------------------------------------------------------
(* _find_element                                                           *)

MarkerChars == "#.[> "

IsPlainText(selector) == \A i \in 1..Len(selector) : ~InChars(Char(selector, i), MarkerChars)

selectors_to_try(selector) ==
    << "button:has-text(\"" \o selector \o "\")",
       "a:has-text(\"" \o selector \o "\")",
       "text=" \o selector,
       "[aria-label*=\"" \o selector \o "\" i]",
       "[placeholder*=\"" \o selector \o "\" i]",
       "[title*=\"" \o selector \o "\" i]" >>

(* mutant: a lookup error is not caught by the resolver *)
LocatorCount_Propagates(sel) ==
    Await("locator.count", sel, "", { "0", "1" })

(* try: page.locator(sel).first.count()   except Exception: no match *)
LocatorCount(sel) ==
    TryExcept(Await("locator.count", sel, "", { "0", "1" }), LAMBDA e : Value("0"))

(* the for loop over selectors_to_try, from index i on; the element found
   is named by the query that found it *)
RECURSIVE TryEach(_, _)
TryEach(sels, i) ==
    IF i > Len(sels) THEN Value(None)
    ELSE Then(LocatorCount(sels[i]),
              LAMBDA n : IF int(n) > 0 THEN Value(sels[i]) ELSE TryEach(sels, i + 1))

(* mutant: the heuristic queries are tried for every selector *)
_find_element_AlwaysHeuristic(selector) ==
    Then(LocatorCount(selector),
         LAMBDA n : IF int(n) > 0 THEN Value(selector)
                    ELSE TryEach(selectors_to_try(selector), 1))

_find_element(selector) ==
    Then(LocatorCount(selector),
         LAMBDA n : IF int(n) > 0 THEN Value(selector)
                    ELSE IF IsPlainText(selector)
                         THEN TryEach(selectors_to_try(selector), 1)
                         ELSE Value(None))

----------------------------------------------------------------------------
(* The handlers                                                            *)

NavigationKeywords == <<"to", "visit", "open">>

(* the URL of the keyword fallback: << >> when the for loop ends without a
   break, else <<url>> *)
FallbackUrl(step_) ==
    LET low == lower(step_)
        ok == { k \in 1..Len(NavigationKeywords) :
                  contains(low, NavigationKeywords[k])
                  /\ Len(split(low, NavigationKeywords[k])) > 1 }
    IN  IF ok = {} THEN << >>
        ELSE LET url == strip(split(low, NavigationKeywords[Least(ok)])[2], SpaceChars)
             IN  <<IF ~startswith(url, "http") THEN "https://" \o url ELSE url>>

_handle_navigation(step_) ==
    LET match == UrlToken(step_)
        found == IF match # << >> THEN match ELSE FallbackUrl(step_)
    IN  IF found = << >>
        THEN Value(Dict(FALSE, "Could not extract URL from: " \o step_, None))
        ELSE LET url == found[1]
             IN  Then(Await("goto", Page, url, { "ok" }), LAMBDA r :
                 Then(screenshot, LAMBDA shot :
                 Value(Dict(TRUE, "Navigated to " \o url, shot))))

(* mutant: no evidence is captured when the element is not found *)
_handle_click_NoEvidence(step_) ==
    LET selector == _extract_selector(step_)
    IN  IF selector = ""
        THEN Value(Dict(FALSE, "Could not extract selector from: " \o step_, None))
        ELSE Then(_find_element(selector), LAMBDA element :
                 IF element # None
                 THEN Then(Await("click", element, "", { "ok" }), LAMBDA r :
                      Then(screenshot, LAMBDA shot :
                      Value(Dict(TRUE, "Clicked on " \o selector, shot))))
                 ELSE Value(Dict(FALSE, "Could not find element: " \o selector, None)))

_handle_click(step_) ==
    LET selector == _extract_selector(step_)
    IN  IF selector = ""
        THEN Value(Dict(FALSE, "Could not extract selector from: " \o step_, None))
        ELSE Then(_find_element(selector), LAMBDA element :
                 IF element # None
                 THEN Then(Await("click", element, "", { "ok" }), LAMBDA r :
                      Then(screenshot, LAMBDA shot :
                      Value(Dict(TRUE, "Clicked on " \o selector, shot))))
                 ELSE Then(screenshot, LAMBDA shot :
                      Value(Dict(FALSE, "Could not find element: " \o selector, shot))))

(* mutant: nothing quoted gives no value at all *)
QuotedOrEmpty_Missing(step_) ==
    LET text_match == QuotedText(step_)
    IN  IF text_match # << >> THEN text_match[1] ELSE None

(* the first quoted literal, "" when nothing is quoted *)
QuotedOrEmpty(step_) ==
    LET text_match == QuotedText(step_)
    IN  IF text_match # << >> THEN text_match[1] ELSE ""

_handle_input(step_) ==
    LET text == QuotedOrEmpty(step_)
        selector == _extract_selector(step_)
    IN  IF selector = ""
        THEN Value(Dict(FALSE, "Could not extract selector from: " \o step_, None))
        ELSE Then(_find_element(selector), LAMBDA element :
                 IF element # None
                 THEN Then(Await("fill", element, text, { "ok" }), LAMBDA r :
                      Then(screenshot, LAMBDA shot :
                      Value(Dict(TRUE, "Entered \"" \o text \o "\" into " \o selector, shot))))
                 ELSE Then(screenshot, LAMBDA shot :
                      Value(Dict(FALSE, "Could not find input element: " \o selector, shot))))

(* mutant: the selection is not guarded by a try block of its own *)
_handle_select_NoTry(step_) ==
    LET option == QuotedOrEmpty(step_)
        selector == _extract_selector(step_)
    IN  IF selector = ""
        THEN Value(Dict(FALSE, "Could not extract selector from: " \o step_, None))
        ELSE Then(Await("select_option", selector, option, { "ok" }), LAMBDA r :
             Then(screenshot, LAMBDA shot :
             Value(Dict(TRUE, "Selected \"" \o option \o "\" from " \o selector, shot))))

_handle_select(step_) ==
    LET option == QuotedOrEmpty(step_)
        selector == _extract_selector(step_)
    IN  IF selector = ""
        THEN Value(Dict(FALSE, "Could not extract selector from: " \o step_, None))
        ELSE TryExcept(
                 Then(Await("select_option", selector, option, { "ok" }), LAMBDA r :
                 Then(screenshot, LAMBDA shot :
                 Value(Dict(TRUE, "Selected \"" \o option \o "\" from " \o selector, shot)))),
                 LAMBDA e :
                 Then(screenshot, LAMBDA shot :
                 Value(Dict(FALSE, "Could not select option: " \o e, shot))))

(* mutant: no evidence is captured when the wait fails *)
_handle_wait_NoEvidence(step_) ==
    LET selector == _extract_selector(step_)
        time_match == TimeMatch(lower(step_))
    IN  IF selector = ""
        THEN IF time_match # << >>
             THEN LET duration == int(time_match[1])
                      unit == time_match[2]
                      ms == IF contains(unit, "ms") \/ contains(unit, "millisecond")
                            THEN duration ELSE duration * 1000
                  IN  Then(Await("wait_for_timeout", Page, str(ms), { "ok" }), LAMBDA r :
                      Value(Dict(TRUE, "Waited for " \o str(duration) \o " " \o unit, None)))
             ELSE ReturnsNone
        ELSE TryExcept(
                 Then(Await("wait_for_selector", selector, str(WaitTimeoutMs), { "ok" }),
                      LAMBDA r :
                 Value(Dict(TRUE, "Element " \o selector \o " appeared", None))),
                 LAMBDA e :
                 Value(Dict(FALSE, "Element " \o selector \o " did not appear", None)))

_handle_wait(step_) ==
    LET selector == _extract_selector(step_)
        time_match == TimeMatch(lower(step_))
    IN  IF selector = ""
        THEN IF time_match # << >>
             THEN LET duration == int(time_match[1])
                      unit == time_match[2]
                      ms == IF contains(unit, "ms") \/ contains(unit, "millisecond")
                            THEN duration ELSE duration * 1000
                  IN  Then(Await("wait_for_timeout", Page, str(ms), { "ok" }), LAMBDA r :
                      Value(Dict(TRUE, "Waited for " \o str(duration) \o " " \o unit, None)))
             ELSE ReturnsNone
        ELSE TryExcept(
                 Then(Await("wait_for_selector", selector, str(WaitTimeoutMs), { "ok" }),
                      LAMBDA r :
                 Value(Dict(TRUE, "Element " \o selector \o " appeared", None))),
                 LAMBDA e :
                 Then(screenshot, LAMBDA shot :
                 Value(Dict(FALSE, "Element " \o selector \o " did not appear", shot))))

(* mutant: the generic verification extracts its selector anew from the
   lower-cased step *)
GenericVerification_Relowered(step_) ==
    LET selector == _extract_selector(lower(step_))
    IN  IF selector # ""
        THEN Then(_find_element(selector), LAMBDA element :
             Then(screenshot, LAMBDA shot :
                 IF element # None
                 THEN Value(Dict(TRUE, "Verified element " \o selector \o " exists", shot))
                 ELSE Value(Dict(FALSE, "Element " \o selector \o " not found", shot))))
        ELSE Then(screenshot, LAMBDA shot :
             Value(Dict(FALSE, "Could not parse verification: " \o step_, shot)))

(* mutant: the generic verification succeeds whether or not the element
   was found *)
GenericVerification_Unchecked(step_) ==
    LET selector == _extract_selector(step_)
    IN  IF selector # ""
        THEN Then(_find_element(selector), LAMBDA element :
             Then(screenshot, LAMBDA shot :
                 IF element # None
                 THEN Value(Dict(TRUE, "Verified element " \o selector \o " exists", shot))
                 ELSE Value(Dict(TRUE, "Verified element " \o selector \o " exists", shot))))
        ELSE Then(screenshot, LAMBDA shot :
             Value(Dict(FALSE, "Could not parse verification: " \o step_, shot)))

(* the generic verification at the end of _handle_verification *)
GenericVerification(step_) ==
    LET selector == _extract_selector(step_)
    IN  IF selector # ""
        THEN Then(_find_element(selector), LAMBDA element :
             Then(screenshot, LAMBDA shot :
                 IF element # None
                 THEN Value(Dict(TRUE, "Verified element " \o selector \o " exists", shot))
                 ELSE Value(Dict(FALSE, "Element " \o selector \o " not found", shot))))
        ELSE Then(screenshot, LAMBDA shot :
             Value(Dict(FALSE, "Could not parse verification: " \o step_, shot)))

MentionsVisibility(step_lower) ==
    contains(step_lower, "visible") \/ contains(step_lower, "displayed")
        \/ contains(step_lower, "shown")

MentionsText(step_lower) ==
    contains(step_lower, "contains") \/ contains(step_lower, "text")
        \/ contains(step_lower, "says")

(* mutant: the negation word "not" is not recognised *)
ExpectingNotVisible_NoNot(step_lower) == any_in(step_lower, <<"hidden", "invisible">>)

ExpectingNotVisible(step_lower) == any_in(step_lower, <<"not", "hidden", "invisible">>)

VisibilityVerification(step_) ==
    LET step_lower == lower(step_)
        selector == _extract_selector(step_)
        expecting_not_visible == ExpectingNotVisible(step_lower)
    IN  IF selector # ""
        THEN Then(_find_element(selector), LAMBDA element :
             Then(IF element # None
                  THEN Await("is_visible", element, "", { "True", "False" })
                  ELSE Value("False"), LAMBDA visible :
             Then(screenshot, LAMBDA shot :
                 LET is_visible == (visible = "True")
                 IN  IF (is_visible /\ ~expecting_not_visible)
                            \/ (~is_visible /\ expecting_not_visible)
                     THEN Value(Dict(TRUE, "Verified " \o selector \o " visibility", shot))
                     ELSE Value(Dict(FALSE,
                                "Verification failed for " \o selector \o " visibility",
                                shot)))))
        ELSE GenericVerification(step_)

(* mutant: a case-sensitive comparison *)
TextMatches_CaseSensitive(expected_text, actual_text) ==
    contains(IF actual_text = None THEN "" ELSE actual_text, expected_text)

(* expected_text.lower() in (actual_text or "").lower() *)
TextMatches(expected_text, actual_text) ==
    contains(lower(IF actual_text = None THEN "" ELSE actual_text), lower(expected_text))

TextVerification(step_) ==
    LET expected_text == QuotedOrEmpty(step_)
        selector == _extract_selector(step_)
    IN  IF selector # "" /\ expected_text # ""
        THEN Then(_find_element(selector), LAMBDA element :
                 IF element # None
                 THEN Then(Await("text_content", element, "", TextContents),
                           LAMBDA actual_text :
                      Then(screenshot, LAMBDA shot :
                          IF TextMatches(expected_text, actual_text)
                          THEN Value(Dict(TRUE,
                                   "Verified text \"" \o expected_text \o "\" in " \o selector,
                                   shot))
                          ELSE Value(Dict(FALSE,
                                   "Text verification failed. Expected \"" \o expected_text
                                       \o "\", got \"" \o actual_text \o "\"",
                                   shot))))
                 ELSE GenericVerification(step_))
        ELSE GenericVerification(step_)

_handle_verification(step_) ==
    LET step_lower == lower(step_)
    IN  IF MentionsVisibility(step_lower) THEN VisibilityVerification(step_)
        ELSE IF MentionsText(step_lower) THEN TextVerification(step_)
        ELSE GenericVerification(step_)

ScrollToBottom == "window.scrollTo(0, document.body.scrollHeight)"
ScrollToTop == "window.scrollTo(0, 0)"
ScrollDown == "window.scrollBy(0, 300)"

(* mutant: top is tested before bottom *)
_handle_scroll_TopFirst(step_) ==
    LET selector == _extract_selector(step_)
        Done(message) == Then(screenshot, LAMBDA shot : Value(Dict(TRUE, message, shot)))
    IN  IF contains(lower(step_), "top")
        THEN Then(Await("evaluate", Page, ScrollToTop, { "ok" }), LAMBDA r :
             Done("Scrolled to top"))
        ELSE IF contains(lower(step_), "bottom")
        THEN Then(Await("evaluate", Page, ScrollToBottom, { "ok" }), LAMBDA r :
             Done("Scrolled to bottom"))
        ELSE IF selector # ""
        THEN Then(_find_element(selector), LAMBDA element :
                 IF element # None
                 THEN Then(Await("scroll_into_view_if_needed", element, "", { "ok" }),
                           LAMBDA r :
                      Done("Scrolled to " \o selector))
                 ELSE Then(screenshot, LAMBDA shot :
                      Value(Dict(FALSE, "Element " \o selector \o " not found for scrolling",
                                 shot))))
        ELSE Then(Await("evaluate", Page, ScrollDown, { "ok" }), LAMBDA r :
             Done("Scrolled down"))

_handle_scroll(step_) ==
    LET selector == _extract_selector(step_)
        Done(message) == Then(screenshot, LAMBDA shot : Value(Dict(TRUE, message, shot)))
    IN  IF contains(lower(step_), "bottom")
        THEN Then(Await("evaluate", Page, ScrollToBottom, { "ok" }), LAMBDA r :
             Done("Scrolled to bottom"))
        ELSE IF contains(lower(step_), "top")
        THEN Then(Await("evaluate", Page, ScrollToTop, { "ok" }), LAMBDA r :
             Done("Scrolled to top"))
        ELSE IF selector # ""
        THEN Then(_find_element(selector), LAMBDA element :
                 IF element # None
                 THEN Then(Await("scroll_into_view_if_needed", element, "", { "ok" }),
                           LAMBDA r :
                      Done("Scrolled to " \o selector))
                 ELSE Then(screenshot, LAMBDA shot :
                      Value(Dict(FALSE, "Element " \o selector \o " not found for scrolling",
                                 shot))))
        ELSE Then(Await("evaluate", Page, ScrollDown, { "ok" }), LAMBDA r :
             Done("Scrolled down"))

_handle_hover(step_) ==
    LET selector == _extract_selector(step_)
    IN  IF selector = ""
        THEN Value(Dict(FALSE, "Could not extract selector from: " \o step_, None))
        ELSE Then(_find_element(selector), LAMBDA element :
                 IF element # None
                 THEN Then(Await("hover", element, "", { "ok" }), LAMBDA r :
                      Then(screenshot, LAMBDA shot :
                      Value(Dict(TRUE, "Hovered over " \o selector, shot))))
                 ELSE Then(screenshot, LAMBDA shot :
                      Value(Dict(FALSE, "Could not find element: " \o selector, shot))))

----------------------------------------------------------------------------
(* execute_step                                                            *)

(* mutant: a snapshot is captured for an unrecognized step *)
Unrecognized_WithSnapshot(step_) ==
    Then(screenshot, LAMBDA shot :
    Value(Dict(FALSE, "Unable to parse step: " \o step_, shot)))

(* the else branch of the classifier *)
Unrecognized(step_) == Value(Dict(FALSE, "Unable to parse step: " \o step_, None))

(* the body of the try block: the handler the classifier dispatches to *)
Handle(step_) ==
    LET handler == Dispatch(step_)
    IN  CASE handler = "_handle_navigation"   -> _handle_navigation(step_)
          [] handler = "_handle_click"        -> _handle_click(step_)
          [] handler = "_handle_input"        -> _handle_input(step_)
          [] handler = "_handle_select"       -> _handle_select(step_)
          [] handler = "_handle_wait"         -> _handle_wait(step_)
          [] handler = "_handle_verification" -> _handle_verification(step_)
          [] handler = "_handle_scroll"       -> _handle_scroll(step_)
          [] handler = "_handle_hover"        -> _handle_hover(step_)
          [] OTHER -> Unrecognized(step_)

execute_step(step_) ==
    TryExcept(Handle(step_),
              LAMBDA e :
              Then(screenshot, LAMBDA shot :
              Value(Dict(FALSE, "Error executing step \"" \o step_ \o "\": " \o e, shot))))

----------------------------------------------------------------------------
(* The MCP server (src/server.py): one BugAutomationMCP instance serves    *)
(* tool calls, each call a coroutine on the one event loop.  A coroutine   *)
(* runs alone from one suspension to the next, so one action is the code   *)
(* between two suspending awaits; the awaited Playwright operation         *)
(* completes or raises.                                                    *)

(* the tool calls that may be in flight at once *)
MaxTasks == 2

Tasks == 1..MaxTasks

PlaywrightTools == { "reproduce_bug", "verify_fix" }

StepLists ==
    { <<"Click on \"Login\" button">>,
      <<"Navigate to https://example.com/login", "Verify \"Welcome\" is visible">> }

(* the arguments of one tool call *)
Requests ==
    [ tool : PlaywrightTools, bug_id : { "BUG-001" }, url : { "https://example.com" },
      steps : StepLists ]

(* a tool call that has not arrived *)
NoCall ==
    [ pc |-> "idle", tool |-> "", bug_id |-> "", url |-> "", steps |-> << >>,
      results |-> << >>, browser |-> None, page |-> None, executed |-> << >>,
      err |-> "", caught |-> FALSE ]

TextContent(text) == [type |-> "text", text |-> text]

ImageContent(data) == [type |-> "image", data |-> data, mimeType |-> "image/png"]

StartingText(tk) ==
    (IF tk.tool = "reproduce_bug" THEN "Starting bug reproduction for "
                                  ELSE "Starting fix verification for ")
    \o tk.bug_id \o " at " \o tk.url

(* the line appended for the step at (0-based) index i *)
StepText(tk, i) ==
    (IF tk.tool = "reproduce_bug" THEN "Step " ELSE "Verification step ")
    \o str(i + 1) \o ": " \o tk.steps[i + 1]

CompletedText(tk) ==
    IF tk.tool = "reproduce_bug"
    THEN "Bug reproduction completed for " \o tk.bug_id
    ELSE "Fix verification completed successfully for " \o tk.bug_id

ErrorText(tk, e) ==
    (IF tk.tool = "reproduce_bug" THEN "Error during reproduction: "
                                  ELSE "Verification failed: ") \o e

(* the for loop over the steps from index i on: one text per line, and no
   other statement in its body *)
RECURSIVE StepLoop(_, _)
StepLoop(tk, i) ==
    IF i >= Len(tk.steps) THEN tk
    ELSE StepLoop([tk EXCEPT !.results = Append(@, TextContent(StepText(tk, i)))], i + 1)

(* At most MaxToolFaults awaited operations of the tool calls raise. *)
MaxToolFaults == 1

ToolFaults ==
    Cardinality({ u \in Tasks : task[u].err # "" })
    + Cardinality({ u \in Tasks : task[u].caught })

MayRaise == ToolFaults < MaxToolFaults

(* the n-th driver started and the n-th browser launched *)
DriverHandle(n) == "playwright" \o str(n)
BrowserHandle(n) == "browser" \o str(n)

(* mutant: an exception inside the try block ends the call without the
   finally block *)
Caught_NoFinally(tk, e) ==
    [tk EXCEPT !.results = Append(@, TextContent(ErrorText(tk, e))), !.pc = "returned",
                !.caught = TRUE]

(* except Exception as e: the error text is appended; finally: the page is
   to be closed *)
Caught(tk, e) ==
    [tk EXCEPT !.results = Append(@, TextContent(ErrorText(tk, e))), !.pc = "close",
                !.caught = TRUE]

(* an exception outside the try block leaves the tool call *)
Escapes(tk, e) == [tk EXCEPT !.pc = "raised", !.err = e]

(* results = []; page = await self.browser.new_page(): the browser is the
   one self.browser names at that moment *)
OpenPage(tk, self_browser) ==
    IF self_browser = None
    THEN Escapes(tk, "'NoneType' object has no attribute 'new_page'")
    ELSE [tk EXCEPT !.pc = "new_page", !.browser = self_browser, !.results = << >>]

(* call_tool -> reproduce_bug / verify_fix -> initialize_playwright up to
   its first suspension: async_playwright().start() when self.playwright is
   not set, else new_page().  The calls are numbered in their order of
   arrival. *)
CallTool(t, req) ==
    /\ task[t].pc = "idle"
    /\ \A u \in 1..(t - 1) : task[u].pc # "idle"
    /\ shutdown = "running"
    /\ LET tk == [NoCall EXCEPT !.tool = req.tool, !.bug_id = req.bug_id,
                                !.url = req.url, !.steps = req.steps]
       IN  task' = [task EXCEPT ![t] = IF playwright = None
                                       THEN [tk EXCEPT !.pc = "start"]
                                       ELSE OpenPage(tk, browser)]
    /\ UNCHANGED <<playwright, browser, started, launched, closed, stopped, shutdown>>
    /\ UNCHANGED <<parserVars, sheetVars>>

(* start() has completed: self.playwright is set and chromium.launch is
   awaited; or start() raised *)
StartDone(t) ==
    /\ task[t].pc = "start"
    /\ \/ /\ started' = started + 1
          /\ playwright' = DriverHandle(started + 1)
          /\ task' = [task EXCEPT ![t].pc = "launch"]
       \/ /\ MayRaise
          /\ task' = [task EXCEPT ![t] = Escapes(@, "start failed")]
          /\ UNCHANGED <<playwright, started>>
    /\ UNCHANGED <<browser, launched, closed, stopped, shutdown>>
    /\ UNCHANGED <<parserVars, sheetVars>>

(* launch() has completed: self.browser is set, initialize_playwright
   returns and new_page is awaited; or launch() raised *)
LaunchDone(t) ==
    /\ task[t].pc = "launch"
    /\ \/ /\ launched' = launched + 1
          /\ browser' = BrowserHandle(launched + 1)
          /\ task' = [task EXCEPT ![t] = OpenPage(@, BrowserHandle(launched + 1))]
       \/ /\ MayRaise
          /\ task' = [task EXCEPT ![t] = Escapes(@, "launch failed")]
          /\ UNCHANGED <<browser, launched>>
    /\ UNCHANGED <<playwright, started, closed, stopped, shutdown>>
    /\ UNCHANGED <<parserVars, sheetVars>>

(* new_page() has completed: the try block begins and page.goto(url) is
   awaited; or new_page() raised *)
NewPageDone(t) ==
    /\ task[t].pc = "new_page"
    /\ \/ task' = [task EXCEPT ![t] =
                      [@ EXCEPT !.page = "open", !.pc = "goto",
                                !.results = Append(@, TextContent(StartingText(task[t])))]]
       \/ MayRaise /\ task' = [task EXCEPT ![t] = Escapes(@, "new_page failed")]
    /\ UNCHANGED <<playwright, browser, started, launched, closed, stopped, shutdown>>
    /\ UNCHANGED <<parserVars, sheetVars>>

(* goto has completed: the loop over the steps runs; reproduce_bug then
   awaits the screenshot, verify_fix appends its completion text and goes
   to the finally block; or goto raised *)
GotoDone(t) ==
    /\ task[t].pc = "goto"
    /\ \/ task' = [task EXCEPT ![t] =
                      IF @.tool = "reproduce_bug"
                      THEN [StepLoop(@, 0) EXCEPT !.pc = "screenshot"]
                      ELSE [StepLoop(@, 0) EXCEPT
                               !.results = Append(@, TextContent(CompletedText(task[t]))),
                               !.pc = "close"]]
       \/ MayRaise /\ task' = [task EXCEPT ![t] = Caught(@, "goto failed")]
    /\ UNCHANGED <<playwright, browser, started, launched, closed, stopped, shutdown>>
    /\ UNCHANGED <<parserVars, sheetVars>>

(* the screenshot of reproduce_bug has completed: the image and the
   completion text are appended; or it raised *)
ScreenshotDone(t) ==
    /\ task[t].pc = "screenshot"
    /\ \/ task' = [task EXCEPT ![t] =
                      [@ EXCEPT !.results = @ \o <<ImageContent(Png),
                                                   TextContent(CompletedText(task[t]))>>,
                                !.pc = "close"]]
       \/ MayRaise /\ task' = [task EXCEPT ![t] = Caught(@, "screenshot failed")]
    /\ UNCHANGED <<playwright, browser, started, launched, closed, stopped, shutdown>>
    /\ UNCHANGED <<parserVars, sheetVars>>

(* finally: await page.close(), then return results; an exception of
   close() leaves the tool call *)
CloseDone(t) ==
    /\ task[t].pc = "close"
    /\ \/ task' = [task EXCEPT ![t] = [@ EXCEPT !.page = "closed", !.pc = "returned"]]
       \/ MayRaise /\ task' = [task EXCEPT ![t] = Escapes(@, "close failed")]
    /\ UNCHANGED <<playwright, browser, started, launched, closed, stopped, shutdown>>
    /\ UNCHANGED <<parserVars, sheetVars>>

(* main: run() has ended with no tool call in flight; cleanup closes the
   browser self.browser names, then stops the driver self.playwright
   names; an exception of close() leaves cleanup before the stop *)
cleanup ==
    /\ shutdown = "running"
    /\ \A t \in Tasks : task[t].pc \in { "idle", "returned", "raised" }
    /\ \/ /\ browser # None
          /\ shutdown' = "raised"
          /\ UNCHANGED <<closed, stopped>>
       \/ /\ closed' = (IF browser # None THEN closed \cup { browser } ELSE closed)
          /\ \/ /\ playwright # None
                /\ shutdown' = "raised"
                /\ UNCHANGED stopped
             \/ /\ stopped' = (IF playwright # None THEN stopped \cup { playwright }
                                                    ELSE stopped)
                /\ shutdown' = "cleaned"
    /\ UNCHANGED <<playwright, browser, started, launched, task>>
    /\ UNCHANGED <<parserVars, sheetVars>>

----------------------------------------------------------------------------
(* update_bug_status on the sheet "Bugs".  sheet[k] is sheet row k + 1     *)
(* (row 1 holds the headers); of a row the model keeps the cells of the    *)
(* columns A (ID), G (status) and I (notes).                               *)

(* the data rows of the sheet *)
MaxRows == 3

BugIds == { "B1", "B2" }

EmptyRow == [A |-> "", G |-> "", I |-> ""]

InitialRows == { EmptyRow } \cup [A : BugIds, G : { "Open", "" }, I : { "" }]

Sheets == UNION { [1..n -> InitialRows] : n \in 0..MaxRows }

(* what values().get of A2:H answers for one row: the cells up to the last
   non-empty one of A..H *)
RowValues(row) ==
    IF row.G # "" THEN <<row.A, "", "", "", "", "", row.G>>
    ELSE IF row.A # "" THEN <<row.A>>
    ELSE << >>

(* result.get('values', []): the rows up to the last one with a value in
   A..H *)
Values(sh) ==
    LET used == { k \in 1..Len(sh) : RowValues(sh[k]) # << >> }
        last == IF used = {} THEN 0 ELSE CHOOSE k \in used : \A j \in used : j <= k
    IN  [ k \in 1..last |-> RowValues(sh[k]) ]

(* the (0-based) indexes i of the rows with len(row) > 0 and row[0] ==
   bug_id *)
Matching(values, bug_id) ==
    { i \in 0..(Len(values) - 1) : Len(values[i + 1]) > 0 /\ values[i + 1][1] = bug_id }

(* f"Bugs!G{i+2}" *)
StatusRange(i) == "Bugs!G" \o str(i + 2)

(* f"Bugs!I{i+2}" *)
NotesRange(i) == "Bugs!I" \o str(i + 2)

(* mutant: the range is computed from the index in the read range plus 1 *)
UpdateRanges_RowAbove(i, status_, notes_) ==
    <<[range |-> "Bugs!G" \o str(i + 1), value |-> status_]>>
    \o (IF notes_ # "" THEN <<[range |-> "Bugs!I" \o str(i + 1), value |-> notes_]>>
                       ELSE << >>)

(* the values().update calls for the row found at index i *)
UpdateRanges(i, status_, notes_) ==
    <<[range |-> StatusRange(i), value |-> status_]>>
    \o (IF notes_ # "" THEN <<[range |-> NotesRange(i), value |-> notes_]>> ELSE << >>)

(* the sheet after values().update(range, RAW, [[value]]): the cell named
   by the A1 range "Bugs!<column><row>" holds the value; rows are added
   when the range lies below the last one *)
Written(sh, update) ==
    LET column == Char(update.range, 6)
        row == int(SubSeq(update.range, 7, Len(update.range)))
        grown == [ k \in 1..(IF row - 1 > Len(sh) THEN row - 1 ELSE Len(sh)) |->
                     IF k <= Len(sh) THEN sh[k] ELSE EmptyRow ]
    IN  IF row < 2 THEN sh
        ELSE [grown EXCEPT ![row - 1] =
                 IF column = "G" THEN [@ EXCEPT !.G = update.value]
                 ELSE IF column = "I" THEN [@ EXCEPT !.I = update.value]
                 ELSE @]

RECURSIVE WrittenAll(_, _, _)
WrittenAll(sh, ups, n) ==
    IF n = 0 THEN sh ELSE Written(WrittenAll(sh, ups, n - 1), ups[n])

(* update_bug_status(bug_id, status, notes): the client is built on first
   use; the rows are read; the first matching row is updated and the call
   returns, or no row matches.  Each request to the sheet completes or
   raises, and an exception leaves the call. *)
update_bug_status(bug_id, status_, notes_) ==
    /\ sheetPc = "idle"
    /\ request' = [bug_id |-> bug_id, status |-> status_, notes |-> notes_]
    /\ sheet_before' = sheet
    /\ sheetPc' = "returned"
    /\ \/ /\ sheets_service = None
          /\ reply' = [tag |-> "raise", err |-> "initialize_sheets failed"]
          /\ UNCHANGED <<sheets_service, sheet>>
          /\ updates' = << >>
       \/ /\ sheets_service' = "sheets"
          /\ \/ /\ reply' = [tag |-> "raise", err |-> "get failed"]
                /\ updates' = << >>
                /\ UNCHANGED sheet
             \/ LET found == Matching(Values(sheet), bug_id)
                IN  IF found = {}
                    THEN /\ reply' = [tag |-> "value",
                                      text |-> "Bug " \o bug_id \o " not found"]
                         /\ updates' = << >>
                         /\ UNCHANGED sheet
                    ELSE LET ups == UpdateRanges(Least(found), status_, notes_)
                         IN  \E done \in 0..Len(ups) :
                               /\ updates' = SubSeq(ups, 1, done)
                               /\ sheet' = WrittenAll(sheet, ups, done)
                               /\ reply' = IF done = Len(ups)
                                           THEN [tag |-> "value",
                                                 text |-> "Updated bug " \o bug_id
                                                          \o " status to " \o status_]
                                           ELSE [tag |-> "raise", err |-> "update failed"]
    /\ UNCHANGED <<parserVars, serverVars>>

(* the reply has been delivered; the server waits for the next call *)
Delivered ==
    /\ sheetPc = "returned"
    /\ sheetPc' = "idle"
    /\ request' = [bug_id |-> "", status |-> "", notes |-> ""]
    /\ sheet_before' = << >>
    /\ updates' = << >>
    /\ reply' = [tag |-> "pending"]
    /\ UNCHANGED <<sheets_service, sheet>>
    /\ UNCHANGED <<parserVars, serverVars>>

----------------------------------------------------------------------------
(* The state machine: a caller holding one parser on one page executes     *)
(* steps one after the other, awaiting each result; all_passed is the      *)
(* caller's record of whether every step so far reported success.          *)

(* a parser on its page, before the first step *)
ParserInit ==
    /\ parser = [page |-> Page]
    /\ pc = "idle"
    /\ step = ""
    /\ frame = [handler |-> ""]
    /\ calls = << >>
    /\ result = [tag |-> "pending"]
    /\ all_passed = TRUE

(* BugAutomationMCP(): no client, no driver, no browser, no call *)
ServerInit ==
    /\ playwright = None
    /\ browser = None
    /\ started = 0
    /\ launched = 0
    /\ closed = {}
    /\ stopped = {}
    /\ shutdown = "running"
    /\ task = [ t \in Tasks |-> NoCall ]

(* the server before its first update call, on the sheet sh *)
SheetIdle(sh) ==
    /\ sheets_service = None
    /\ sheet = sh
    /\ sheetPc = "idle"
    /\ request = [bug_id |-> "", status |-> "", notes |-> ""]
    /\ sheet_before = << >>
    /\ updates = << >>
    /\ reply = [tag |-> "pending"]

Init == ParserInit /\ ServerInit /\ SheetIdle(<< >>)

(* the handler each step is dispatched to and the runs of execute_step on
   it, computed from the step alone *)
HandlerOf == [ s \in Steps |-> Dispatch(s) ]

RunsOf == [ s \in Steps |-> execute_step(s) ]

(* mutant: the parser refuses further steps once a step has failed *)
ExecuteStep_StopsAfterFailure(s) ==
    /\ pc = "idle"
    /\ all_passed
    /\ \E run \in RunsOf[s] :
        /\ calls' = run.log
        /\ result' = run.out
    /\ step' = s
    /\ frame' = [handler |-> HandlerOf[s]]
    /\ pc' = "returned"
    /\ UNCHANGED <<parser, all_passed>>
    /\ UNCHANGED <<serverVars, sheetVars>>

(* await parser.execute_step(s) *)
ExecuteStep(s) ==
    /\ pc = "idle"
    /\ \E run \in RunsOf[s] :
        /\ calls' = run.log
        /\ result' = run.out
    /\ step' = s
    /\ frame' = [handler |-> HandlerOf[s]]
    /\ pc' = "returned"
    /\ UNCHANGED <<parser, all_passed>>
    /\ UNCHANGED <<serverVars, sheetVars>>

(* the caller has consumed the result and goes on to its next step; a step
   that did not return success, whatever it did instead, clears all_passed *)
NextStep ==
    /\ pc = "returned"
    /\ pc' = "idle"
    /\ step' = ""
    /\ frame' = [handler |-> ""]
    /\ calls' = << >>
    /\ result' = [tag |-> "pending"]
    /\ all_passed' = (all_passed /\ result.tag = "value" /\ result.val.success)
    /\ UNCHANGED parser
    /\ UNCHANGED <<serverVars, sheetVars>>

Next == (\E s \in Steps : ExecuteStep(s)) \/ NextStep

Spec == Init /\ [][Next]_vars

(* The server with tool calls arriving while others are in flight; the     *)
(* tools never call the step parser, whose variables keep their values.    *)
ServerNext ==
    \/ \E t \in Tasks, req \in Requests : CallTool(t, req)
    \/ \E t \in Tasks : StartDone(t)
    \/ \E t \in Tasks : LaunchDone(t)
    \/ \E t \in Tasks : NewPageDone(t)
    \/ \E t \in Tasks : GotoDone(t)
    \/ \E t \in Tasks : ScreenshotDone(t)
    \/ \E t \in Tasks : CloseDone(t)
    \/ cleanup

ServerSpec == Init /\ [][ServerNext]_vars

(* The server answering update_bug_status calls on a sheet. *)
SheetInit == ParserInit /\ ServerInit /\ \E sh \in Sheets : SheetIdle(sh)

StatusInputs == { "Fixed" }

NotesInputs == { "", "retest" }

SheetNext ==
    \/ \E bug_id \in BugIds, status_ \in StatusInputs, notes_ \in NotesInputs :
           update_bug_status(bug_id, status_, notes_)
    \/ Delivered

SheetSpec == SheetInit /\ [][SheetNext]_vars

----------------------------------------------------------------------------
(* Vocabulary of the properties                                            *)

Returned == pc = "returned"

CallsOf(op) == { i \in 1..Len(calls) : calls[i].op = op }

(* some lookup of the run found a node *)
Resolved == \E i \in CallsOf("locator.count") : calls[i].res = "1"

(* an operation other than a lookup raised; a lookup error is absorbed by
   the resolver and counts as a miss *)
ActionRaised == \E i \in 1..Len(calls) : calls[i].res = Raise /\ calls[i].op # "locator.count"

(* the index of the first lookup that found a node, 0 when none did *)
FirstHit ==
    IF Resolved THEN Least({ i \in CallsOf("locator.count") : calls[i].res = "1" }) ELSE 0

StartsWithAny(s, prefixes) == \E p \in prefixes : startswith(s, p)

(* the rule order of the classifier, as a table *)
RuleHandlers ==
    << "_handle_navigation", "_handle_click", "_handle_input", "_handle_select",
       "_handle_wait", "_handle_verification", "_handle_scroll", "_handle_hover" >>

RuleHolds(s) ==
    LET l == strip(lower(s), SpaceChars)
    IN  << IsNavigation(l), IsClick(l), IsInput(l), IsSelect(l),
           IsWait(l), IsVerification(l), IsScroll(l), IsHover(l) >>

EarliestRule(s) ==
    LET holds == { i \in 1..Len(RuleHandlers) : RuleHolds(s)[i] }
    IN  IF holds = {} THEN "unrecognized" ELSE RuleHandlers[Least(holds)]

(* the messages only the click handler, or the catch-all around it, gives *)
ClickMessages ==
    { "Clicked on ", "Could not find element: ", "Could not extract selector from: ",
      "Error executing step " }

(* the results of the extraction strategies, in their documented order *)
StrategyResults(s) ==
    << SelectorFromQuote(s), SelectorFromElementType(s), SelectorFromId(s),
       SelectorFromClass(s), SelectorFromPreposition(s) >>

FirstNonEmpty(seq) ==
    LET ne == { i \in 1..Len(seq) : seq[i] # "" }
    IN  IF ne = {} THEN "" ELSE seq[Least(ne)]

(* the step contains one of the negation words *)
Negated(s) ==
    contains(lower(s), "not") \/ contains(lower(s), "hidden") \/ contains(lower(s), "invisible")

(* what follows the first of the keywords to, visit, open that the step
   contains, trimmed; "" when it contains none *)
KeywordRemainder(s) ==
    LET low == lower(s)
        present == { k \in 1..Len(NavigationKeywords) : contains(low, NavigationKeywords[k]) }
    IN  IF present = {} THEN ""
        ELSE LET kw == NavigationKeywords[Least(present)]
             IN  strip(SubSeq(low, find(low, kw, 1) + Len(kw), Len(low)), SpaceChars)

(* what the properties need to know of each step, computed once *)
Facts ==
    [ s \in Steps |->
        [ earliest   |-> EarliestRule(s),
          holds      |-> RuleHolds(s),
          extracted  |-> _extract_selector(s),
          firstYield |-> FirstNonEmpty(StrategyResults(s)),
          visibility |-> MentionsVisibility(lower(s)),
          textMode   |-> ~MentionsVisibility(lower(s)) /\ MentionsText(lower(s)),
          negated    |-> Negated(s),
          quoted     |-> QuotedOrEmpty(s),
          bottom     |-> contains(lower(s), "bottom"),
          top        |-> contains(lower(s), "top"),
          noUrl      |-> UrlToken(s) = << >> /\ KeywordRemainder(s) = "" ] ]

(* the first resolution of the step found an element: its hit is among the
   queries of one resolution, the verbatim one and, for a plain selector,
   the six heuristic ones *)
TextModeResolved ==
    /\ FirstHit # 0
    /\ FirstHit <= (IF IsPlainText(Facts[step].extracted)
                    THEN 1 + Len(selectors_to_try("")) ELSE 1)

----------------------------------------------------------------------------
(* C1: whenever execute_step returns, what it returns is a result record   *)
(* with the fields success, message and screenshot, never None; this       *)
(* includes the wait steps with neither a locator nor a duration.          *)
C1_ReturnsResultRecord ==
    Returned /\ result.tag # "raise"
        => /\ result.tag = "value"
           /\ DOMAIN result.val = { "success", "message", "screenshot" }

(* C2: execute_step never raises past its boundary, whatever page or       *)
(* element operation raises while the step is handled, the snapshot        *)
(* capture included.                                                       *)
C2_NeverRaises == Returned => result.tag # "raise"

C4_ExtractionOrder ==
    Returned =>
        /\ Facts[step].extracted = Facts[step].firstYield
        /\ frame.handler \in { "_handle_click", "_handle_input", "_handle_hover" }
             /\ Facts[step].firstYield # ""
               => /\ calls # << >>
                  /\ calls[1].op = "locator.count"
                  /\ calls[1].target = Facts[step].firstYield
        /\ step = "Click on the \"Submit\" button"
               => calls # << >> /\ calls[1].target = "text=Submit"

C4_Witness ==
    /\ Returned
    /\ step = "Click on the \"Submit\" button"
    /\ calls[1].op = "locator.count" /\ calls[1].target = "text=Submit"
    /\ result.tag = "value" /\ result.val.message = "Clicked on text=Submit"

(* C5: through execute_step, the step  Wait 2 seconds  makes the page      *)
(* sleep 2000 ms and the step  Wait 500 ms  makes it sleep 500 ms, each    *)
(* returning success when the sleep completes.                             *)
C5_WaitByDuration ==
    /\ Returned /\ step = "Wait 2 seconds"
         => /\ \E i \in CallsOf("wait_for_timeout") : calls[i].arg = "2000"
            /\ ~ActionRaised => result.tag = "value" /\ result.val.success
    /\ Returned /\ step = "Wait 500 ms"
         => /\ \E i \in CallsOf("wait_for_timeout") : calls[i].arg = "500"
            /\ ~ActionRaised => result.tag = "value" /\ result.val.success

(* C6: for a verification step that mentions visible, displayed or shown   *)
(* and has a selector, when the visibility read and the snapshot complete, *)
(* the step succeeds iff (the element resolved and is visible) differs     *)
(* from (the step contains not, hidden or invisible); an element that did  *)
(* not resolve counts as not visible.                                      *)
C6_VisibilityXorNegation ==
    Returned /\ frame.handler = "_handle_verification" /\ Facts[step].visibility
             /\ Facts[step].extracted # "" /\ ~ActionRaised
        => /\ result.tag = "value"
           /\ result.val.success =
                 ((Resolved /\ \E i \in CallsOf("is_visible") : calls[i].res = "True")
                      # Facts[step].negated)
           /\ ~Resolved => CallsOf("is_visible") = {}
           /\ ~Resolved /\ step = "Verify \"Error\" is not visible" => result.val.success
           /\ ~Resolved /\ step = "Verify \"Error\" is visible" => ~result.val.success

C6_Witness ==
    /\ Returned
    /\ step = "Verify \"Error\" is not visible"
    /\ CallsOf("locator.count") # {} /\ ~Resolved /\ ~ActionRaised
    /\ result.tag = "value" /\ result.val.success

(* C7: for a verification step in text mode (contains, text or says, and   *)
(* no visibility word) with a quoted expected text, once the element       *)
(* resolved and its text content was read, and the snapshot completes, the *)
(* step succeeds iff the expected text is a case-insensitive substring of  *)
(* the text content, an absent text content counting as the empty string   *)
(* and giving a result, not an error.                                      *)
C7_TextContainment ==
    Returned /\ frame.handler = "_handle_verification" /\ Facts[step].textMode
             /\ Facts[step].quoted # "" /\ ~ActionRaised
        => /\ TextModeResolved
               => Len(calls) > FirstHit /\ calls[FirstHit + 1].op = "text_content"
           /\ \A i \in CallsOf("text_content") :
                 /\ result.tag = "value"
                 /\ result.val.success =
                       contains(lower(IF calls[i].res = None THEN "" ELSE calls[i].res),
                                lower(Facts[step].quoted))

C7_Witness ==
    /\ Returned
    /\ step = "Verify \"welcome\" text"
    /\ \E i \in CallsOf("text_content") : calls[i].res = "Welcome, Bob"
    /\ ~ActionRaised
    /\ result.tag = "value" /\ result.val.success

(* C8 as stated: a click step whose selector does not resolve fails with a *)
(* message containing "element not found" and with evidence, and clicks    *)
(* nothing; when the element is found it is clicked exactly once, the      *)
(* evidence is captured after the click, and the step succeeds.            *)
C8_ClickAsStated ==
    Returned /\ frame.handler = "_handle_click" /\ Facts[step].extracted # ""
             /\ ~ActionRaised
        => /\ result.tag = "value"
           /\ ~Resolved
                => /\ ~result.val.success
                   /\ contains(lower(result.val.message), "element not found")
                   /\ result.val.screenshot = Png
                   /\ CallsOf("click") = {}
           /\ Resolved
                => /\ result.val.success
                   /\ Cardinality(CallsOf("click")) = 1
                   /\ \A i \in CallsOf("click") :
                         i + 1 = Len(calls) /\ calls[i + 1].op = "screenshot"
                   /\ result.val.screenshot = Png

(* C8 amended: the same, the message of the failure being                  *)
(* "Could not find element: <selector>".                                   *)
C8_ClickOutcome ==
    Returned /\ frame.handler = "_handle_click" /\ Facts[step].extracted # ""
             /\ ~ActionRaised
        => /\ result.tag = "value"
           /\ ~Resolved
                => /\ ~result.val.success
                   /\ result.val.message = "Could not find element: " \o Facts[step].extracted
                   /\ result.val.screenshot = Png
                   /\ CallsOf("click") = {}
           /\ Resolved
                => /\ result.val.success
                   /\ Cardinality(CallsOf("click")) = 1
                   /\ \A i \in CallsOf("click") :
                         i + 1 = Len(calls) /\ calls[i + 1].op = "screenshot"
                   /\ result.val.screenshot = Png

C8_Witness ==
    /\ Returned
    /\ step = "Click on \"Login\" button"
    /\ CallsOf("locator.count") # {} /\ ~Resolved /\ ~ActionRaised
    /\ result.tag = "value" /\ ~result.val.success
    /\ result.val.message = "Could not find element: text=Login"
    /\ result.val.screenshot = Png

(* C9: a step that no classifier rule matches fails with the message       *)
(* "Unable to parse step: <step>" and no evidence, and no operation is     *)
(* invoked on the page.                                                    *)
C9_Unrecognized ==
    Returned /\ Facts[step].earliest = "unrecognized"
        => /\ result = [tag |-> "value",
                        val |-> Dict(FALSE, "Unable to parse step: " \o step, None)]
           /\ calls = << >>

C9_Witness ==
    /\ Returned
    /\ step = "Reload"
    /\ \A i \in 1..Len(RuleHandlers) : ~Facts[step].holds[i]
    /\ result.tag = "value" /\ result.val.message = "Unable to parse step: Reload"
    /\ calls = << >>

(* C10: a navigation step from which neither the http(s):// token nor the  *)
(* remainder after the keyword gives a non-empty string fails with the     *)
(* result "Could not extract URL from: <step>", and the page is not        *)
(* navigated.                                                              *)
C10_NoUrlNoNavigation ==
    Returned /\ frame.handler = "_handle_navigation" /\ Facts[step].noUrl
        => /\ result = [tag |-> "value",
                        val |-> Dict(FALSE, "Could not extract URL from: " \o step, None)]
           /\ CallsOf("goto") = {}

----------------------------------------------------------------------------
(* the first snapshot capture of the step, 0 when none was attempted *)
FirstSnapshot ==
    IF CallsOf("screenshot") = {} THEN 0 ELSE Least(CallsOf("screenshot"))

(* the message of the failure that was being reported when the first       *)
(* snapshot was attempted: the element was not found (click, input, hover, *)
(* scroll), the selection or the wait raised, or another operation raised  *)
(* and the catch-all reports it; "" when no failure was being reported     *)
PrimaryFailure ==
    LET k == FirstSnapshot
        selector == Facts[step].extracted
    IN  IF k <= 1 THEN ""
        ELSE LET before == calls[k - 1]
             IN  IF before.op = "locator.count"
                 THEN IF before.res = "1" THEN ""
                      ELSE CASE frame.handler = "_handle_click" ->
                                    "Could not find element: " \o selector
                             [] frame.handler = "_handle_hover" ->
                                    "Could not find element: " \o selector
                             [] frame.handler = "_handle_input" ->
                                    "Could not find input element: " \o selector
                             [] frame.handler = "_handle_scroll" ->
                                    "Element " \o selector \o " not found for scrolling"
                             [] OTHER -> ""
                 ELSE IF before.res # Raise THEN ""
                 ELSE IF before.op = "select_option"
                 THEN "Could not select option: select_option failed"
                 ELSE IF before.op = "wait_for_selector"
                 THEN "Element " \o selector \o " did not appear"
                 ELSE "Error executing step \"" \o step \o "\": " \o before.op \o " failed"

(* C11: when the snapshot capture raises while a failure is being reported *)
(* (element not found, selection failure, wait timeout, or the catch-all), *)
(* the step still returns a failure result whose message is that primary   *)
(* failure and whose evidence is absent; the snapshot error neither        *)
(* replaces the message nor leaves execute_step.                           *)
C11_EvidenceBestEffort ==
    Returned /\ PrimaryFailure # "" /\ calls[FirstSnapshot].res = Raise
        => /\ result.tag = "value"
           /\ ~result.val.success
           /\ result.val.message = PrimaryFailure
           /\ result.val.screenshot = None

----------------------------------------------------------------------------
(* C12: execute_step leaves the parser's only field, the page reference,   *)
(* as it was, and keeps no history: whatever the earlier steps were and    *)
(* however they ended, every step can be executed next, and what a step    *)
(* returns is one of the runs determined by that step and the answers of   *)
(* the page alone; a failed step does not prevent a later one.             *)
C12_Stateless ==
    /\ parser = [page |-> Page]
    /\ pc = "idle" => \A s \in Steps : ENABLED ExecuteStep(s)
    /\ Returned => [log |-> calls, out |-> result] \in RunsOf[step]

C12_Witness ==
    /\ Returned
    /\ ~all_passed
    /\ parser = [page |-> Page]
    /\ step = "Verify \"Welcome\" is visible"
    /\ result.tag = "value" /\ result.val.success

----------------------------------------------------------------------------
(* the login scenario, in order *)
LoginScenario ==
    << "Navigate to https://example.com/login",
       "Enter \"testuser\" into username field",
       "Click on \"Login\" button",
       "Verify \"Welcome\" is visible" >>

(* the queries that find a node on the login page of the scenario: the     *)
(* Login button by its text and, after the login, the Welcome banner by    *)
(* its text; the username field is an empty text input and no node of the  *)
(* page has the text testuser                                              *)
LoginPageNodes == { "text=Login", "text=Welcome" }

(* the page answered the step as the login page of the scenario answers:   *)
(* nothing raised, a lookup found a node exactly for the queries above,    *)
(* and the node found is visible                                           *)
OnLoginPage ==
    \A i \in 1..Len(calls) :
        /\ calls[i].res # Raise
        /\ calls[i].op = "locator.count"
               => (calls[i].res = "1") = (calls[i].target \in LoginPageNodes)
        /\ calls[i].op = "is_visible" => calls[i].res = "True"

(* C13: each of the four steps of the login scenario, executed against the *)
(* login page, returns success, and each of the last three looks up a      *)
(* locator that resolves on that page.                                     *)
C13_LoginScenario ==
    Returned /\ OnLoginPage /\ (\E k \in 1..Len(LoginScenario) : step = LoginScenario[k])
        => /\ result.tag = "value"
           /\ result.val.success
           /\ step # LoginScenario[1] => Resolved

----------------------------------------------------------------------------
ResultFields == { "success", "message", "screenshot" }

(* the handlers that act on one element named by the step *)
ElementHandlers == { "_handle_click", "_handle_input", "_handle_select", "_handle_hover" }

(* C14: for a step from which no locator is extracted, when no operation   *)
(* raises: the click, input, select and hover handlers return the failure  *)
(* "Could not extract selector from: <step>" with no evidence and invoke   *)
(* nothing on the page; the verification handler returns a failure result; *)
(* the scroll handler scrolls without an element, by 300 down unless the   *)
(* step says bottom or top; the wait handler returns a result record.      *)
C14_EmptyLocator ==
    Returned /\ Facts[step].extracted = "" /\ ~ActionRaised
        => /\ frame.handler \in ElementHandlers
               => /\ result = [tag |-> "value",
                               val |-> Dict(FALSE, "Could not extract selector from: " \o step,
                                            None)]
                  /\ calls = << >>
           /\ frame.handler = "_handle_verification"
               => /\ result.tag = "value"
                  /\ ~result.val.success
                  /\ CallsOf("locator.count") = {}
           /\ frame.handler = "_handle_scroll"
               => /\ result.tag = "value"
                  /\ result.val.success
                  /\ CallsOf("locator.count") = {}
                  /\ Cardinality(CallsOf("evaluate")) = 1
                  /\ ~contains(lower(step), "bottom") /\ ~contains(lower(step), "top")
                         => calls[1].op = "evaluate" /\ calls[1].arg = ScrollDown
           /\ frame.handler = "_handle_wait"
               => /\ result.tag = "value"
                  /\ DOMAIN result.val = ResultFields

----------------------------------------------------------------------------
SnapshotRaised == \E i \in CallsOf("screenshot") : calls[i].res = Raise

(* C15: a select step with a locator invokes the selection once, with the  *)
(* locator and the quoted option; when the selection raises, the step      *)
(* returns the failure "Could not select option: <error text>", not the    *)
(* message of the catch-all, with evidence; when it does not raise, the    *)
(* step returns success with evidence (the snapshot completing).           *)
C15_SelectFailure ==
    Returned /\ frame.handler = "_handle_select" /\ Facts[step].extracted # ""
             /\ ~SnapshotRaised
        => /\ calls # << >>
           /\ calls[1] = [op |-> "select_option", target |-> Facts[step].extracted,
                          arg |-> Facts[step].quoted, res |-> calls[1].res]
           /\ Cardinality(CallsOf("select_option")) = 1
           /\ calls[1].res = Raise
                => result = [tag |-> "value",
                             val |-> Dict(FALSE,
                                          "Could not select option: select_option failed",
                                          Png)]
           /\ calls[1].res # Raise
                => result = [tag |-> "value",
                             val |-> Dict(TRUE,
                                          "Selected \"" \o Facts[step].quoted \o "\" from "
                                              \o Facts[step].extracted,
                                          Png)]

C15_Witness ==
    /\ Returned
    /\ step = "Select \"United States\" from the country dropdown"
    /\ calls[1].op = "select_option" /\ calls[1].res = Raise
    /\ ~SnapshotRaised
    /\ result.tag = "value" /\ ~result.val.success
    /\ result.val.message = "Could not select option: select_option failed"
    /\ result.val.screenshot = Png

----------------------------------------------------------------------------
(* C16: a wait step with a locator invokes wait_for_selector on it, first  *)
(* and once, with the bound 10000 ms, and never the time-based sleep; when *)
(* the wait completes the step returns success with no evidence and no     *)
(* snapshot is taken; when the wait raises (timeout or error) the step     *)
(* returns failure with the captured snapshot.                             *)
C16_WaitForElement ==
    Returned /\ frame.handler = "_handle_wait" /\ Facts[step].extracted # ""
             /\ ~SnapshotRaised
        => /\ calls # << >>
           /\ calls[1] = [op |-> "wait_for_selector", target |-> Facts[step].extracted,
                          arg |-> "10000", res |-> calls[1].res]
           /\ Cardinality(CallsOf("wait_for_selector")) = 1
           /\ CallsOf("wait_for_timeout") = {}
           /\ calls[1].res # Raise
                => /\ result = [tag |-> "value",
                                val |-> Dict(TRUE,
                                             "Element " \o Facts[step].extracted \o " appeared",
                                             None)]
                   /\ CallsOf("screenshot") = {}
           /\ calls[1].res = Raise
                => result = [tag |-> "value",
                             val |-> Dict(FALSE,
                                          "Element " \o Facts[step].extracted
                                              \o " did not appear",
                                          Png)]

C16_Witness ==
    /\ Returned
    /\ step = "Wait for #spinner to disappear"
    /\ calls[1].op = "wait_for_selector" /\ calls[1].target = "#spinner"
    /\ calls[1].arg = "10000" /\ calls[1].res = Raise
    /\ result.tag = "value" /\ ~result.val.success /\ result.val.screenshot = Png

----------------------------------------------------------------------------
(* neither the visibility mode nor the text mode returns for the step: the *)
(* step mentions neither, or the visibility mode has no locator, or the    *)
(* text mode has no locator, no quoted text, or did not find the element   *)
GenericMode ==
    IF Facts[step].visibility THEN Facts[step].extracted = ""
    ELSE IF Facts[step].textMode
         THEN Facts[step].extracted = "" \/ Facts[step].quoted = "" \/ ~TextModeResolved
         ELSE TRUE

(* C17: when neither the visibility mode nor the text mode returns, and no *)
(* operation raises, the verification step succeeds iff the lookup of the  *)
(* generic mode finds an element (never, without a locator); and every     *)
(* result of a verification step carries the captured snapshot, taken as   *)
(* the last operation of the step.                                         *)
C17_GenericVerification ==
    Returned /\ frame.handler = "_handle_verification"
        => /\ GenericMode /\ ~ActionRaised
               => /\ result.tag = "value"
                  /\ result.val.success = Resolved
                  /\ Facts[step].extracted = "" => ~Resolved
           /\ result.tag = "value"
               => /\ result.val.screenshot = Png
                  /\ calls # << >>
                  /\ calls[Len(calls)] = [op |-> "screenshot", target |-> Page,
                                          arg |-> "", res |-> Png]

C17_Witness ==
    /\ Returned
    /\ step = "Confirm \"Success\" text appears"
    /\ GenericMode /\ ~ActionRaised /\ Resolved
    /\ result.tag = "value" /\ result.val.success
    /\ result.val.message = "Verified element text=Success exists"
    /\ result.val.screenshot = Png

----------------------------------------------------------------------------
(* the run of a scroll that applies one page script and takes the snapshot *)
ScriptScroll(script, message) ==
    /\ calls = << [op |-> "evaluate", target |-> Page, arg |-> script, res |-> "ok"],
                  [op |-> "screenshot", target |-> Page, arg |-> "", res |-> Png] >>
    /\ result = [tag |-> "value", val |-> Dict(TRUE, message, Png)]

(* C18: a scroll step, when no operation raises: if it mentions bottom the *)
(* page is scrolled to its full height; else if it mentions top, to the    *)
(* origin; else if a locator is extracted, the element it resolves to is   *)
(* scrolled into view, and when it does not resolve the step fails, with   *)
(* evidence and without scrolling; else the page is scrolled down by 300.  *)
(* The step succeeds, with evidence, in every case but the unresolved      *)
(* locator.                                                                *)
C18_Scroll ==
    Returned /\ frame.handler = "_handle_scroll" /\ ~ActionRaised
        => LET f == Facts[step]
               byLocator == ~f.bottom /\ ~f.top /\ f.extracted # ""
           IN  /\ result.tag = "value"
               /\ result.val.screenshot = Png
               /\ result.val.success = ~(byLocator /\ ~Resolved)
               /\ f.bottom => ScriptScroll(ScrollToBottom, "Scrolled to bottom")
               /\ ~f.bottom /\ f.top => ScriptScroll(ScrollToTop, "Scrolled to top")
               /\ ~f.bottom /\ ~f.top /\ f.extracted = ""
                      => ScriptScroll(ScrollDown, "Scrolled down")
               /\ byLocator => CallsOf("evaluate") = {}
               /\ byLocator /\ Resolved
                      => /\ Cardinality(CallsOf("scroll_into_view_if_needed")) = 1
                         /\ calls[FirstHit + 1] =
                                [op |-> "scroll_into_view_if_needed",
                                 target |-> calls[FirstHit].target, arg |-> "", res |-> "ok"]
               /\ byLocator /\ ~Resolved => CallsOf("scroll_into_view_if_needed") = {}

C18_Witness ==
    /\ Returned
    /\ step = "Scroll from top to bottom"
    /\ Facts[step].bottom /\ Facts[step].top
    /\ ScriptScroll(ScrollToBottom, "Scrolled to bottom")

----------------------------------------------------------------------------
(* C19: an input step with a locator, when no operation raises: if the     *)
(* locator resolves, fill is invoked exactly once, on the element found,   *)
(* with the first quoted literal of the step ("" when nothing is quoted),  *)
(* and the step returns success with the message                           *)
(* Entered "<literal>" into <locator>; if it does not resolve, fill is not *)
(* invoked and the step returns a failure with evidence.                   *)
C19_Input ==
    Returned /\ frame.handler = "_handle_input" /\ Facts[step].extracted # ""
             /\ ~ActionRaised
        => /\ Resolved
               => /\ Cardinality(CallsOf("fill")) = 1
                  /\ calls[FirstHit + 1] =
                         [op |-> "fill", target |-> calls[FirstHit].target,
                          arg |-> Facts[step].quoted, res |-> "ok"]
                  /\ result = [tag |-> "value",
                               val |-> Dict(TRUE,
                                            "Entered \"" \o Facts[step].quoted \o "\" into "
                                                \o Facts[step].extracted,
                                            Png)]
                  /\ step = "Type \"hello world\" into the search field"
                         => calls[FirstHit + 1].arg = "hello world"
                  /\ step = "Fill in #email"
                         => /\ calls[FirstHit + 1].arg = ""
                            /\ result.val.message = "Entered \"\" into #email"
           /\ ~Resolved
               => /\ CallsOf("fill") = {}
                  /\ result = [tag |-> "value",
                               val |-> Dict(FALSE,
                                            "Could not find input element: "
                                                \o Facts[step].extracted,
                                            Png)]

C19_Witness ==
    /\ Returned
    /\ step = "Fill in #email"
    /\ Resolved /\ ~ActionRaised
    /\ \E i \in CallsOf("fill") : calls[i].arg = "" /\ calls[i].target = "#email"
    /\ result.tag = "value" /\ result.val.success

----------------------------------------------------------------------------
(* the selector contains one of the marker characters # . [ > or a space *)
HasMarker(sel) == \E c \in { "#", ".", "[", ">", " " } : contains(sel, c)

(* the queries of one resolution of sel, in order: sel verbatim, then, for *)
(* a selector without marker characters, the six heuristic queries         *)
QueriesOf(sel) == <<sel>> \o (IF HasMarker(sel) THEN << >> ELSE selectors_to_try(sel))

(* the operations on an element a handler invokes after finding it *)
ElementOps ==
    { "click", "fill", "hover", "scroll_into_view_if_needed", "is_visible", "text_content" }

(* the first i - 1 operations of the step are lookups that found nothing *)
MissedBefore(i) ==
    \A j \in 1..(i - 1) : calls[j].op = "locator.count" /\ calls[j].res # "1"

(* C20: the resolution a step starts with tries the locator verbatim       *)
(* first; it goes on to the next query only when the one before found      *)
(* nothing, through the six heuristic queries in their order and only for  *)
(* a locator without marker characters; the element it gives is the one of *)
(* the first query with a match, on which the handler then operates, and   *)
(* none when every query tried found nothing.                              *)
C20_Resolution ==
    Returned /\ calls # << >> /\ calls[1].op = "locator.count"
        => LET queries == QueriesOf(Facts[step].extracted)
               N == Len(queries)
           IN  /\ \A i \in 1..N :
                      MissedBefore(i)
                          => /\ i <= Len(calls)
                             /\ calls[i].op = "locator.count"
                             /\ calls[i].target = queries[i]
                             /\ calls[i].res = "1" /\ i < Len(calls)
                                    => /\ calls[i + 1].op # "locator.count"
                                       /\ calls[i + 1].op \in ElementOps
                                              => calls[i + 1].target = queries[i]
               /\ MissedBefore(N + 1)
                      => /\ N < Len(calls)
                             => calls[N + 1].op \in { "screenshot", "locator.count" }
                         /\ frame.handler # "_handle_verification"
                             => \A k \in 1..Len(calls) : calls[k].op \notin ElementOps
               /\ HasMarker(Facts[step].extracted)
                      => N = 1 /\ (Len(calls) > 1 => calls[2].op # "locator.count"
                                                     \/ frame.handler = "_handle_verification")
               /\ step = "Hover over \"Menu\"" /\ MissedBefore(8)
                      => /\ calls[1].target = "text=Menu"
                         /\ calls[2].target = "button:has-text(\"text=Menu\")"
                         /\ calls[3].target = "a:has-text(\"text=Menu\")"
                         /\ calls[4].target = "text=text=Menu"
                         /\ calls[5].target = "[aria-label*=\"text=Menu\" i]"
                         /\ calls[6].target = "[placeholder*=\"text=Menu\" i]"
                         /\ calls[7].target = "[title*=\"text=Menu\" i]"
                         /\ result.tag = "value" => ~result.val.success

C20_Witness ==
    /\ Returned
    /\ step = "Hover over \"Menu\""
    /\ MissedBefore(3) /\ calls[3].res = "1"
    /\ calls[3].target = "a:has-text(\"text=Menu\")"
    /\ calls[4].op = "hover" /\ calls[4].target = "a:has-text(\"text=Menu\")"
    /\ result.tag = "value" /\ result.val.success

----------------------------------------------------------------------------
LookupError == "locator.count failed"

(* C21: a lookup that raises, the verbatim one or a heuristic one, counts  *)
(* as a query that found nothing: the step goes on, within the resolution  *)
(* the step starts with the next query in order is still tried, and the    *)
(* error of the lookup neither leaves execute_step nor appears in the      *)
(* result.                                                                 *)
C21_LookupErrorIsolated ==
    Returned
        => /\ \A i \in CallsOf("locator.count") :
                  calls[i].res = Raise
                      => /\ i < Len(calls)
                         /\ i < Len(QueriesOf(Facts[step].extracted)) /\ MissedBefore(i)
                                => /\ calls[i + 1].op = "locator.count"
                                   /\ calls[i + 1].target =
                                          QueriesOf(Facts[step].extracted)[i + 1]
           /\ result.tag = "raise" => result.err # LookupError
           /\ result.tag = "value" => ~contains(result.val.message, LookupError)

C21_Witness ==
    /\ Returned
    /\ step = "Hover over \"Menu\""
    /\ calls[1].op = "locator.count" /\ calls[1].res = Raise
    /\ calls[2].op = "locator.count" /\ calls[2].res = "1"
    /\ calls[2].target = "button:has-text(\"text=Menu\")"
    /\ calls[3].op = "hover"
    /\ result.tag = "value" /\ result.val.success

----------------------------------------------------------------------------
(* the members of a sequence *)
Range(seq) == { seq[i] : i \in 1..Len(seq) }

----------------------------------------------------------------------------
(* the whole of the step after the first occurrence of the first of the    *)
(* keywords to, visit, open it contains (case-insensitively), trimmed      *)
StepRemainder(s) ==
    LET low == lower(s)
        present == { k \in 1..Len(NavigationKeywords) : contains(low, NavigationKeywords[k]) }
    IN  IF present = {} THEN ""
        ELSE LET kw == NavigationKeywords[Least(present)]
             IN  strip(SubSeq(s, find(low, kw, 1) + Len(kw), Len(s)), SpaceChars)

WithScheme(u) ==
    IF startswith(u, "http://") \/ startswith(u, "https://") THEN u ELSE "https://" \o u

(* the URL a navigation step names: its http(s):// token, else the         *)
(* remainder after the keyword, with https:// put before it when it has no *)
(* scheme                                                                  *)
NamedUrl(s) == IF UrlToken(s) # << >> THEN UrlToken(s)[1] ELSE WithScheme(StepRemainder(s))

NamedUrls == [ s \in Steps |-> NamedUrl(s) ]

(* C23: a navigation step that succeeds has navigated the page exactly     *)
(* once, to the URL the step names (its http(s):// token, else the whole   *)
(* remainder after the first matching keyword of to, visit, open, with     *)
(* https:// before it when it has no scheme), and its message reports that *)
(* URL.                                                                    *)
C23_NavigateUrl ==
    Returned /\ frame.handler = "_handle_navigation"
             /\ result.tag = "value" /\ result.val.success
        => /\ Cardinality(CallsOf("goto")) = 1
           /\ calls[1].op = "goto" /\ calls[1].arg = NamedUrls[step]
           /\ result.val.message = "Navigated to " \o NamedUrls[step]

----------------------------------------------------------------------------
(* the entire phrase after the first occurrence of " <prep> " in the       *)
(* lower-cased step, trimmed and with surrounding quotes removed           *)
TrailingPhrase(s, prep) ==
    LET low == lower(s)
        sep == " " \o prep \o " "
    IN  IF contains(low, sep)
        THEN strip(strip(SubSeq(low, find(low, sep, 1) + Len(sep), Len(low)), SpaceChars),
                   QuoteChars)
        ELSE ""

(* the text match on the trailing phrase of the first preposition, in list *)
(* order, whose trailing phrase is not empty                               *)
PhraseSelector(s) ==
    LET ok == { p \in 1..Len(Prepositions) : TrailingPhrase(s, Prepositions[p]) # "" }
    IN  IF ok = {} THEN "" ELSE "text=" \o TrailingPhrase(s, Prepositions[Least(ok)])

NoEarlierStrategy(s) ==
    /\ SelectorFromQuote(s) = "" /\ SelectorFromElementType(s) = ""
    /\ SelectorFromId(s) = "" /\ SelectorFromClass(s) = ""

PhraseSelectors == [ s \in Steps |-> [ applies |-> NoEarlierStrategy(s),
                                       selector |-> PhraseSelector(s) ] ]

(* C24: when neither the quoted text, nor an element type, nor #id, nor    *)
(* .class gives a locator, the locator of the step is the text match on    *)
(* the entire phrase that follows the first occurrence of the first        *)
(* preposition of on the, on, into the, into, with, at whose trailing      *)
(* phrase is not empty (none when there is no such preposition), and it is *)
(* the locator the click, hover and wait handlers look up first.           *)
C24_PrepositionFallback ==
    Returned /\ PhraseSelectors[step].applies
        => /\ Facts[step].extracted = PhraseSelectors[step].selector
           /\ ( /\ frame.handler \in {"_handle_click", "_handle_hover", "_handle_wait"}
                /\ PhraseSelectors[step].selector # "" /\ Len(calls) > 0
                => calls[1].target = PhraseSelectors[step].selector )

----------------------------------------------------------------------------
----------------------------------------------------------------------------
(* Vocabulary of the server properties                                     *)

ToolReturned(t) == task[t].pc = "returned"

(* the tool call went through its whole try block *)
Completed(t) ==
    /\ task[t].results # << >>
    /\ task[t].results[Len(task[t].results)] = TextContent(CompletedText(task[t]))

(* the browsers launched so far *)
Launched == { BrowserHandle(n) : n \in 1..launched }

(* C25: a server tool call that has run through its step list has invoked  *)
(* execute_step exactly once per line, in list order.                      *)
C25_OncePerLine ==
    \A t \in Tasks : ToolReturned(t) /\ Completed(t) => task[t].executed = task[t].steps

(* C26: whatever the interleaving of the tool calls, the driver is started *)
(* at most once and at most one browser is launched, and once cleanup has  *)
(* completed every launched browser is closed.                             *)
C26_SingleBrowser ==
    /\ started <= 1
    /\ launched <= 1
    /\ shutdown = "cleaned" => Launched \subseteq closed

(* C27: when a tool call returns, the page it opened is closed; and when   *)
(* goto or the screenshot raised, the results returned are those           *)
(* accumulated so far followed by the error text, without the completion   *)
(* text.                                                                   *)
C27_PageClosed ==
    \A t \in Tasks :
        ToolReturned(t) =>
            /\ task[t].page = "closed"
            /\ task[t].results[1] = TextContent(StartingText(task[t]))
            /\ task[t].caught =>
                 LET n == Len(task[t].results)
                     e == IF n = 2 THEN "goto failed" ELSE "screenshot failed"
                 IN  /\ task[t].results[n] = TextContent(ErrorText(task[t], e))
                     /\ n = 2 \/ ( /\ task[t].tool = "reproduce_bug"
                                   /\ n = Len(task[t].steps) + 2
                                   /\ \A i \in 1..Len(task[t].steps) :
                                        task[t].results[i + 1]
                                            = TextContent(StepText(task[t], i - 1)) )
                     /\ \A i \in 1..n :
                          task[t].results[i] # TextContent(CompletedText(task[t]))
            /\ ~task[t].caught => Completed(t)

C27_Witness ==
    /\ ToolReturned(1) /\ ToolReturned(2)
    /\ task[1].tool = "reproduce_bug" /\ Len(task[1].steps) = 2
    /\ task[1].caught /\ Len(task[1].results) = 4
    /\ task[1].results[4].text = "Error during reproduction: screenshot failed"
    /\ task[1].page = "closed"
    /\ task[2].tool = "verify_fix" /\ Completed(2) /\ task[2].page = "closed"

----------------------------------------------------------------------------
(* the rows of the sheet, as it was when the call began, whose ID is the   *)
(* requested one                                                           *)
RowsWithId == { k \in 1..Len(sheet_before) : sheet_before[k].A = request.bug_id }

(* the writes the call is to issue for the row sheet_before[k], which is   *)
(* sheet row k + 1: index k - 1 in the read range, plus 2                  *)
WritesFor(k) ==
    <<[range |-> "Bugs!G" \o str(k + 1), value |-> request.status]>>
    \o (IF request.notes # ""
        THEN <<[range |-> "Bugs!I" \o str(k + 1), value |-> request.notes]>>
        ELSE << >>)

(* C29: an update_bug_status call writes only to the first row whose ID is *)
(* bug_id, at sheet row (index in the read range) + 2: the status into     *)
(* column G and, only for non-empty notes, the notes into column I, every  *)
(* other cell of the sheet keeping its value; when no row has that ID it   *)
(* issues no write, leaves the sheet as it was and answers 'not found'.    *)
C29_UpdateFrame ==
    sheetPc = "returned" =>
        /\ Len(sheet) = Len(sheet_before)
        /\ \A k \in 1..Len(sheet) : sheet[k].A = sheet_before[k].A
        /\ IF RowsWithId = {}
           THEN /\ updates = << >>
                /\ sheet = sheet_before
                /\ reply.tag = "value" => reply.text = "Bug " \o request.bug_id \o " not found"
           ELSE LET first == Least(RowsWithId)
                IN  /\ \A k \in 1..Len(sheet) : k # first => sheet[k] = sheet_before[k]
                    /\ Len(updates) <= Len(WritesFor(first))
                    /\ updates = SubSeq(WritesFor(first), 1, Len(updates))
                    /\ sheet[first].G = (IF Len(updates) >= 1 THEN request.status
                                                              ELSE sheet_before[first].G)
                    /\ sheet[first].I = (IF Len(updates) >= 2 THEN request.notes
                                                              ELSE sheet_before[first].I)
                    /\ reply.tag = "value" =>
                         /\ updates = WritesFor(first)
                         /\ reply.text = "Updated bug " \o request.bug_id
                                         \o " status to " \o request.status

C29_Witness ==
    /\ sheetPc = "returned"
    /\ request = [bug_id |-> "B2", status |-> "Fixed", notes |-> "retest"]
    /\ sheet_before = <<EmptyRow, [A |-> "B2", G |-> "Open", I |-> ""],
                        [A |-> "B2", G |-> "Open", I |-> ""]>>
    /\ updates = <<[range |-> "Bugs!G3", value |-> "Fixed"],
                   [range |-> "Bugs!I3", value |-> "retest"]>>
    /\ sheet = <<EmptyRow, [A |-> "B2", G |-> "Fixed", I |-> "retest"],
                 [A |-> "B2", G |-> "Open", I |-> ""]>>
    /\ reply = [tag |-> "value", text |-> "Updated bug B2 status to Fixed"]

====
